---- MODULE Spec2Model ----
(***************************************************************************)
(* Model of the Gkicks order and address route handlers.                   *)
(*                                                                         *)
(*   variant "A" : src/unnamed/part_000  (orders; POST is authenticated,   *)
(*                 GET hydrates items and parses shipping_address)         *)
(*   variant "B" : src/app/api/orders/route.ts lines 1-300 (orders; POST   *)
(*                 takes user_id from the body, GET returns raw rows)      *)
(*   addresses   : src/app/api/orders/route.ts lines 301-592               *)
(*                                                                         *)
(* Every request runs in one of the slots of Procs.  A handler that issues *)
(* several SQL statements (or HTTP calls) takes one step per statement, so *)
(* that concurrent requests interleave exactly where the database lets     *)
(* them; what a handler does between two statements touches only its own   *)
(* locals and is folded into the step of the statement that follows.       *)
(***************************************************************************)
EXTENDS Integers, Sequences, FiniteSets, TLC

\* ------------------------------------------------------------------ bounds
\* longest items list of an order-creation request
MaxItems == 2
\* number of successful order status updates (each one reads NOW())
MaxClock == 1
\* number of address rows ever inserted
MaxAddrs == 3

\* ------------------------------------------------------------------ values
NULL == "NULL"
Procs == {"p1", "p2"}
Users == {"u1", "u2"}

\* Authorization headers a request may carry.
NoHeader == [present |-> FALSE, scheme |-> "", token |-> ""]
AuthHeaders ==
  {NoHeader}
    \cup {[present |-> TRUE, scheme |-> "Basic ", token |-> "tok_u1"],
          [present |-> TRUE, scheme |-> "Bearer ", token |-> "forged"]}
    \cup {[present |-> TRUE, scheme |-> "Bearer ", token |-> "tok_" \o u] : u \in Users}

\* jwt.verify(token, JWT_SECRET): the decoded userId, or NULL when it throws.
JwtVerify(token) ==
  IF \E u \in Users : token = "tok_" \o u
    THEN CHOOSE u \in Users : token = "tok_" \o u
    ELSE NULL

\* getUserFromToken: identity of the caller, or NULL.
GetUserFromToken(h) ==
  IF ~h.present \/ h.scheme # "Bearer " THEN NULL ELSE JwtVerify(h.token)

\* ------------------------------------------------------------------ JSON
\* A JSON object is a sequence of <<key, value>> pairs in insertion order;
\* its serialized text is the sequence of the tokens of the text.
Obj(pairs) == [type |-> "object", val |-> pairs]
Str(toks) == [type |-> "string", val |-> toks]
JsNull == [type |-> "null", val |-> <<>>]
Undefined == [type |-> "undefined", val |-> <<>>]

RECURSIVE StringifyPairs(_)
StringifyPairs(pairs) ==
  IF pairs = <<>> THEN <<>>
  ELSE <<pairs[1][1], ":", pairs[1][2]>>
         \o (IF Len(pairs) > 1 THEN <<",">> ELSE <<>>)
         \o StringifyPairs(Tail(pairs))

\* JSON.stringify of an object
JSONstringify(o) == <<"{">> \o StringifyPairs(o.val) \o <<"}">>

RECURSIVE ParsePairs(_)
ParsePairs(toks) ==
  IF Len(toks) < 3 THEN <<>>
  ELSE <<  <<toks[1], toks[3]>>  >>
         \o ParsePairs(SubSeq(toks, 5, Len(toks)))

\* JSON.parse of the text of an object
JSONparse(toks) == Obj(ParsePairs(SubSeq(toks, 2, Len(toks) - 1)))

\* order.shipping_address ? JSON.parse(order.shipping_address) : null
ParseShipping(text) == IF text # <<>> THEN JSONparse(text) ELSE JsNull

\* shipping_address values of a request body
ShippingInputs ==
  {Undefined,
   Obj(<< <<"city", "Cebu">>, <<"zip", "6000">> >>)}

\* JSON.stringify(shipping_address || {})
StoredShipping(sa) ==
  JSONstringify(IF sa.type = "object" THEN sa ELSE Obj(<<>>))

\* ------------------------------------------------------------------ products
\* The products table: product 1 has stock for red/M, the variants text of
\* product 2 does not parse, product 3 does not exist.
ProductIds == {1, 2}
InitProducts ==
  (1 :> [variants |-> [kind |-> "json", map |-> ("red" :> ("M" :> 2))]])
    @@ (2 :> [variants |-> [kind |-> "corrupt", map |-> <<>>]])

\* variants = product.variants ? JSON.parse(product.variants) : {}   (catch: {})
ParseVariants(v) == IF v.kind = "json" THEN v.map ELSE <<>>

\* variants[item.color]?.[item.size] || 0
AvailableStock(vmap, color, size) ==
  IF color \in DOMAIN vmap
    THEN IF size \in DOMAIN vmap[color] THEN vmap[color][size] ELSE 0
    ELSE 0

Item(pid, color, size, q) ==
  [product_id |-> pid, color |-> color, size |-> size, quantity |-> q]

Quantities == {1, 2, 3}
Items ==
  {Item(1, "red", "M", q) : q \in Quantities}
    \cup {Item(1, "blue", "M", 1), Item(1, "red", "L", 1),
          Item(2, "red", "M", 1), Item(3, "red", "M", 1)}

SeqsUpTo(S, n) == UNION {[1..k -> S] : k \in 0..n}

\* An item the initial stock covers when taken on its own.
Covered(item) ==
  /\ item.product_id \in DOMAIN InitProducts
  /\ AvailableStock(ParseVariants(InitProducts[item.product_id].variants),
                    item.color, item.size) >= item.quantity

\* items of a request body (<<>> : absent or empty): the lists in which every
\* item before the last is covered
ItemLists ==
  {l \in SeqsUpTo(Items, MaxItems) : \A k \in 1..(Len(l) - 1) : Covered(l[k])}

VARIABLES
  products,     \* products table: id -> row
  orders,       \* orders table: row id = position
  order_items,  \* order_items table
  clock,        \* NOW()
  pc,           \* per slot: the statement the request is at
  req,          \* per slot: the request and its locals
  resp,         \* per slot: the response sent
  origin,       \* history: per order, the request that created it
  decremented,  \* history: per variant, units the stock service has subtracted
  addresses,    \* addresses table: a set of rows
  nextAddrId,   \* addresses table: the next auto-increment id
  alone         \* history: per slot, no other request has run since this one arrived

ordersDb == <<products, orders, order_items, clock, origin, decremented>>
addressDb == <<addresses, nextAddrId>>
vars == <<products, orders, order_items, clock, pc, req, resp, origin, decremented,
          addresses, nextAddrId, alone>>

\* ------------------------------------------------------------------ helpers
Idle == [op |-> "none"]
NoResp == [status |-> 0, body |-> [error |-> ""]]
Err(msg) == [error |-> msg]

\* the handler returns: the response is sent and the slot's request is over
Reply(p, request, status, body) ==
  /\ pc' = [pc EXCEPT ![p] = "done"]
  /\ req' = [req EXCEPT ![p] = request]
  /\ resp' = [resp EXCEPT ![p] = [status |-> status, body |-> body]]

\* the handler goes on to its next statement
Goto(p, request, label) ==
  /\ pc' = [pc EXCEPT ![p] = label]
  /\ req' = [req EXCEPT ![p] = request]
  /\ resp' = [resp EXCEPT ![p] = NoResp]

Free(p) == pc[p] \in {"idle", "done"}

\* a request arrives in slot p: it is alone when no request is in flight, and
\* no earlier request is alone any longer
Arrive(p) ==
  alone' = [q \in Procs |-> q = p /\ \A o \in Procs \ {p} : Free(o)]

\* stock recorded for an item: variants[color][size], 0 when absent
StockAt(prods, item) ==
  IF item.product_id \in DOMAIN prods
    THEN AvailableStock(ParseVariants(prods[item.product_id].variants),
                        item.color, item.size)
    ELSE 0

\* SELECT * FROM order_items WHERE order_id = ?
SelectItems(id) == SelectSeq(order_items, LAMBDA r : r.order_id = id)

RECURSIVE Reverse(_)
Reverse(s) == IF s = <<>> THEN <<>> ELSE Append(Reverse(Tail(s)), Head(s))

\* SELECT ... FROM orders WHERE user_id = ? ORDER BY created_at DESC
SelectOrders(user) == Reverse(SelectSeq(orders, LAMBDA r : r.user_id = user))

\* the variants that have a stock entry: <<product, color, size>>
VariantOf(item) == <<item.product_id, item.color, item.size>>
StockedVariants ==
  {<<id, c, s>> : id \in ProductIds, c \in {"red", "blue"}, s \in {"M", "L"}}
    \cap {VariantOf(it) : it \in {x \in Items : StockAt(InitProducts, x) > 0}}

\* ------------------------------------------------------------------ stock service
\* PUT /api/products/stock?id= {color, size, quantity}: subtracts the quantity
\* from variants[color][size]; non-OK, stock unchanged, when it is not there.
StockService(prods, item) ==
  IF StockAt(prods, item) >= item.quantity /\ StockAt(prods, item) > 0
    THEN [ok |-> TRUE,
          products |->
            [prods EXCEPT ![item.product_id].variants.map[item.color][item.size]
                             = @ - item.quantity]]
    ELSE [ok |-> FALSE, products |-> prods]

\* ------------------------------------------------------------------ orders: POST
\* <<total, customer_email>> of a request body
BodyRequired == {<<1000, "a@b.com">>, <<0, "a@b.com">>, <<1000, "">>}
\* !total || !customer_email
MissingTotalOrEmail(b) == b[1] = 0 \/ b[2] = ""
\* the identities the headers verify to
Callers(headers) == {GetUserFromToken(h) : h \in headers}
BodyUserIds == {NULL} \cup Users

\* faulty forms of the stock comparison: only an empty stock fails; off by one
InsufficientOnlyWhenEmpty(avail, quantity) == avail <= 0
InsufficientOffByOne(avail, quantity) == avail + 1 < quantity

\* the stock check of one item: availableStock < item.quantity
Insufficient(avail, quantity) == avail < quantity

\* The request and the handler's locals.  cred is the identity the request's
\* Authorization header verifies to (NULL: none).  History: n, the length of
\* the items list; complete, the body has total and customer_email; short,
\* some item asks for more than the stock recorded when the request arrives;
\* calls, the calls made to the stock service; took, the units those calls
\* subtracted; failedAt, the item whose call came back non-OK (0: none).
OrderRequest(v, user, items, complete) ==
  [op |-> "OrderPOST", variant |-> v, cred |-> user, items |-> items, i |-> 1,
   orderId |-> 0, calls |-> 0, took |-> 0, failedAt |-> 0, n |-> Len(items),
   complete |-> complete,
   short |-> \E k \in 1..Len(items) :
               items[k].quantity > StockAt(products, items[k])]

\* the handler has returned: its locals are gone
Closed(r) == [r EXCEPT !.items = <<>>, !.i = 0]

\* POST up to the first statement: authentication (variant A only), body,
\* required fields.
OrderPostBegin(p, v, headers, lists) ==
  /\ Free(p)
  /\ \E user \in Callers(headers), items \in lists,
        complete \in {~MissingTotalOrEmail(b) : b \in BodyRequired} :
       LET r == OrderRequest(v, user, items, complete)
       IN  IF v = "A" /\ user = NULL
             THEN Reply(p, Closed(r), 401, Err("Unauthorized"))
           ELSE IF items = <<>>
             THEN Reply(p, Closed(r), 400, Err("Order items are required"))
           ELSE IF ~complete
             THEN Reply(p, Closed(r), 400,
                        Err("Total amount and customer email are required"))
           ELSE Goto(p, r, "validate")
  /\ Arrive(p)
  /\ UNCHANGED <<ordersDb, addressDb>>

\* one turn of the stock validation loop
ValidateStock(p) ==
  /\ pc[p] = "validate"
  /\ LET r == req[p]
         item == r.items[r.i]
     IN  IF item.product_id \notin DOMAIN products
           THEN Reply(p, Closed(r), 400, Err("Product not found"))
         ELSE IF Insufficient(StockAt(products, item), item.quantity)
           THEN Reply(p, Closed(r), 400, Err("Insufficient stock"))
         ELSE IF r.i < Len(r.items)
           THEN Goto(p, [r EXCEPT !.i = @ + 1], "validate")
         ELSE Goto(p, [r EXCEPT !.i = 1], "adjust")
  /\ UNCHANGED <<ordersDb, addressDb, alone>>

\* faulty forms: only the response to the last call is looked at; none is
AfterAdjustLastOnly(ok, i, n) ==
  IF i < n THEN "adjust" ELSE IF ~ok THEN "reply400" ELSE "insertOrder"
AfterAdjustUnchecked(ok, i, n) == IF i < n THEN "adjust" ELSE "insertOrder"

\* where the stock reduction loop goes after a call: out with 400 when the
\* response is not OK, else to the next item, else on to the INSERT
AfterAdjust(ok, i, n) ==
  IF ~ok THEN "reply400" ELSE IF i < n THEN "adjust" ELSE "insertOrder"

\* one turn of the stock reduction loop: the call to the stock service
AdjustStock(p) ==
  /\ pc[p] = "adjust"
  /\ LET item == req[p].items[req[p].i]
         out == StockService(products, item)
         r == [req[p] EXCEPT !.calls = @ + 1,
                             !.took = IF out.ok THEN @ + item.quantity ELSE @,
                             !.failedAt = IF out.ok THEN @ ELSE req[p].i]
         next == AfterAdjust(out.ok, r.i, Len(r.items))
     IN  /\ products' = out.products
         /\ decremented' = IF out.ok
                             THEN [decremented EXCEPT ![VariantOf(item)] = @ + item.quantity]
                             ELSE decremented
         /\ IF next = "reply400"
              THEN Reply(p, Closed(r), 400, Err("Stock update failed"))
              ELSE Goto(p, [r EXCEPT !.i = IF next = "adjust" THEN @ + 1 ELSE 1], next)
  /\ UNCHANGED <<orders, order_items, clock, origin, addressDb, alone>>

\* user_id of the new row: the verified caller (A), body.user_id || null (B)
OrderUserId(r, bodyUserId) == IF r.variant = "A" THEN r.cred ELSE bodyUserId

\* INSERT INTO orders
InsertOrder(p, shippings, userIds) ==
  /\ pc[p] = "insertOrder"
  /\ \E sa \in shippings, uid \in userIds :
       LET r == req[p]
           id == Len(orders) + 1
           row == [id |-> id,
                   user_id |-> OrderUserId(r, uid),
                   status |-> "pending",
                   tracking_number |-> NULL,
                   updated_at |-> clock,
                   shipping_address |-> StoredShipping(sa)]
       IN  /\ orders' = Append(orders, row)
           /\ origin' = Append(origin, [variant |-> r.variant, cred |-> r.cred,
                                        shipping |-> sa])
           /\ Goto(p, [r EXCEPT !.orderId = id, !.i = 1], "insertItems")
  /\ UNCHANGED <<products, order_items, clock, decremented, addressDb, alone>>

\* INSERT INTO order_items, one row per turn
InsertOrderItem(p) ==
  /\ pc[p] = "insertItems"
  /\ LET r == req[p]
         item == r.items[r.i]
         row == [order_id |-> r.orderId, product_id |-> item.product_id,
                 quantity |-> item.quantity, size |-> item.size,
                 color |-> item.color]
     IN  /\ order_items' = Append(order_items, row)
         /\ IF r.i < Len(r.items)
              THEN Goto(p, [r EXCEPT !.i = @ + 1], "insertItems")
              ELSE Goto(p, r, "refetch")
  /\ UNCHANGED <<products, orders, clock, origin, decremented, addressDb, alone>>

\* an order row as the handlers return it, shipping_address parsed
ParsedOrder(row, items) ==
  [id |-> row.id, user_id |-> row.user_id, status |-> row.status,
   tracking_number |-> row.tracking_number, updated_at |-> row.updated_at,
   shipping_address |-> ParseShipping(row.shipping_address), items |-> items]

\* SELECT the new order and its items, respond 201
RefetchOrder(p) ==
  /\ pc[p] = "refetch"
  /\ Reply(p, Closed(req[p]), 201,
           ParsedOrder(orders[req[p].orderId], SelectItems(req[p].orderId)))
  /\ UNCHANGED <<ordersDb, addressDb, alone>>

\* ------------------------------------------------------------------ orders: PUT
PutStatuses == {"", "shipped"}
PutTrackings == {NULL, "TRK1"}

\* faulty form: the UPDATE is not scoped to the caller
OrderMatchesAnyOwner(row, id, user) == row.id = id

\* UPDATE orders SET ... WHERE id = ? AND user_id = ?: the rows it matches
OrderMatches(row, id, user) == row.id = id /\ row.user_id = user

\* PUT ?id=: one UPDATE scoped to the caller, then the row is read back.
\* id 0 stands for a request without the id parameter.
OrderPut(p, v, headers) ==
  /\ Free(p)
  /\ \E user \in Callers(headers), id \in 0..(Len(orders) + 1),
        status \in PutStatuses :
       LET r == [op |-> "OrderPUT", variant |-> v, cred |-> user, id |-> id,
                 status |-> status]
           hit == {k \in 1..Len(orders) : OrderMatches(orders[k], id, user)}
           now == clock + 1
       IN  IF user = NULL
             THEN Reply(p, r, 401, Err("Unauthorized")) /\ UNCHANGED <<orders, clock>>
           ELSE IF id = 0
             THEN Reply(p, r, 400, Err("Order ID is required")) /\ UNCHANGED <<orders, clock>>
           ELSE IF status = ""
               THEN /\ Reply(p, r, 400, Err("Status is required"))
                    /\ UNCHANGED <<orders, clock>>
             ELSE IF hit = {}
               THEN /\ Reply(p, r, 404, Err("Order not found or unauthorized"))
                    /\ UNCHANGED <<orders, clock>>
             ELSE \E tracking \in PutTrackings :
                    LET updated == [k \in 1..Len(orders) |->
                                      IF k \in hit
                                        THEN [orders[k] EXCEPT
                                                !.status = status,
                                                !.tracking_number = tracking,
                                                !.updated_at = now]
                                        ELSE orders[k]]
                    IN  /\ clock < MaxClock
                        /\ orders' = updated
                        /\ clock' = now
                        /\ Reply(p, r, 200, ParsedOrder(updated[id], <<>>))
  /\ Arrive(p)
  /\ UNCHANGED <<products, order_items, origin, decremented, addressDb>>

\* ------------------------------------------------------------------ orders: GET
\* variant A: each order with its items, shipping_address parsed
HydratedOrder(row) ==
  [id |-> row.id, status |-> row.status, updated_at |-> row.updated_at,
   shipping_address |-> ParseShipping(row.shipping_address),
   items |-> SelectItems(row.id)]

\* variant B: the rows as the driver returns them
RawOrder(row) ==
  [id |-> row.id, user_id |-> row.user_id, status |-> row.status,
   tracking_number |-> row.tracking_number, updated_at |-> row.updated_at,
   shipping_address |-> Str(row.shipping_address)]

ListedOrder(v, row) == IF v = "A" THEN HydratedOrder(row) ELSE RawOrder(row)

OrderGet(p, v, headers) ==
  /\ Free(p)
  /\ \E user \in Callers(headers) :
       LET r == [op |-> "OrderGET", variant |-> v, cred |-> user]
           rows == SelectOrders(user)
       IN  IF user = NULL
             THEN Reply(p, r, 401, Err("Unauthorized"))
             ELSE Reply(p, r, 200, [k \in 1..Len(rows) |-> ListedOrder(v, rows[k])])
  /\ Arrive(p)
  /\ UNCHANGED <<ordersDb, addressDb>>

\* ------------------------------------------------------------------ addresses
\* A request body; "" stands for an absent field.  address_line_2, state,
\* postal_code and phone are optional like country (default '') and are left out.
AddressBody(city, country, isDefault) ==
  [first_name |-> "Ana", last_name |-> "Cruz", address_line_1 |-> "1 Rizal St",
   city |-> city, country |-> country, is_default |-> isDefault]

\* !address_line_1 || !city || !first_name || !last_name
MissingRequired(b) ==
  b.address_line_1 = "" \/ b.city = "" \/ b.first_name = "" \/ b.last_name = ""

\* the column values an INSERT or UPDATE writes
AddressRow(id, user, b) ==
  [id |-> id, user_id |-> user, first_name |-> b.first_name,
   last_name |-> b.last_name, address_line_1 |-> b.address_line_1,
   city |-> b.city,
   country |-> IF b.country = "" THEN "Philippines" ELSE b.country,
   is_default |-> b.is_default]

\* faulty forms: the UPDATE clears nothing; it is not scoped to the caller
ClearDefaultsEveryUser(rows, user, keep) ==
  {IF a.id # keep THEN [a EXCEPT !.is_default = FALSE] ELSE a : a \in rows}
ClearDefaultsSkipped(rows, user, keep) == rows

\* UPDATE addresses SET is_default = 0 WHERE user_id = ? [AND id != ?]
\* (keep = 0: no row is kept)
ClearDefaults(rows, user, keep) ==
  {IF a.user_id = user /\ a.id # keep THEN [a EXCEPT !.is_default = FALSE] ELSE a :
     a \in rows}

\* faulty form: the statement is not scoped to the caller
AddressMatchesAnyOwner(a, id, user) == a.id = id

\* WHERE id = ? AND user_id = ?
AddressMatches(a, id, user) == a.id = id /\ a.user_id = user

DefaultsOf(rows, user) == {a \in rows : a.user_id = user /\ a.is_default}

\* ORDER BY is_default DESC, created_at DESC
RECURSIVE SortAddresses(_)
SortAddresses(rows) ==
  IF rows = {} THEN <<>>
  ELSE LET first == CHOOSE a \in rows :
                      \A b \in rows :
                        \/ a.is_default /\ ~b.is_default
                        \/ a.is_default = b.is_default /\ a.id >= b.id
       IN  <<first>> \o SortAddresses(rows \ {first})

\* the handler has returned: of the body, the history keeps is_default
Settled(r) == [r EXCEPT !.body = [is_default |-> r.body.is_default]]

\* GET: the caller's addresses
AddressGet(p, headers) ==
  /\ Free(p)
  /\ \E user \in Callers(headers) :
       LET r == [op |-> "AddressGET", cred |-> user]
       IN  IF user = NULL
             THEN Reply(p, r, 401, Err("Unauthorized"))
             ELSE Reply(p, r, 200,
                        SortAddresses({a \in addresses : a.user_id = user}))
  /\ Arrive(p)
  /\ UNCHANGED <<ordersDb, addressDb>>

\* rows inserted so far, and those the creations in flight will insert
Inserting == Cardinality({q \in Procs : pc[q] \in {"addrClear", "addrInsert"}})

\* POST up to the first statement.  before: history, the number of default
\* addresses the caller had when the request arrived.
AddressPostBegin(p, headers, bodies) ==
  /\ Free(p)
  /\ \E user \in Callers(headers), b \in bodies :
       LET r == [op |-> "AddressPOST", cred |-> user, body |-> b, id |-> 0,
                 before |-> Cardinality(DefaultsOf(addresses, user))]
       IN  IF user = NULL
             THEN Reply(p, Settled(r), 401, Err("Unauthorized"))
           ELSE IF MissingRequired(b)
             THEN Reply(p, Settled(r), 400, Err("Address line 1, city, first name, and last name are required"))
           ELSE /\ nextAddrId - 1 + Inserting < MaxAddrs
                /\ Goto(p, r, IF b.is_default THEN "addrClear" ELSE "addrInsert")
  /\ Arrive(p)
  /\ UNCHANGED <<ordersDb, addressDb>>

\* POST: UPDATE addresses SET is_default = 0 WHERE user_id = ?
AddressPostClear(p) ==
  /\ pc[p] = "addrClear"
  /\ addresses' = ClearDefaults(addresses, req[p].cred, 0)
  /\ Goto(p, req[p], "addrInsert")
  /\ UNCHANGED <<ordersDb, nextAddrId, alone>>

\* POST: INSERT INTO addresses
AddressPostInsert(p) ==
  /\ pc[p] = "addrInsert"
  /\ addresses' = addresses \cup {AddressRow(nextAddrId, req[p].cred, req[p].body)}
  /\ nextAddrId' = nextAddrId + 1
  /\ Goto(p, [req[p] EXCEPT !.id = nextAddrId], "addrRefetch")
  /\ UNCHANGED <<ordersDb, alone>>

\* the first row of a SELECT by id (undefined when there is none)
FirstRow(rows) == IF rows = {} THEN [undefined |-> TRUE] ELSE CHOOSE a \in rows : TRUE

\* POST: SELECT * FROM addresses WHERE id = insertId, respond 201
AddressPostRefetch(p) ==
  /\ pc[p] = "addrRefetch"
  /\ Reply(p, Settled(req[p]), 201, FirstRow({a \in addresses : a.id = req[p].id}))
  /\ UNCHANGED <<ordersDb, addressDb, alone>>

\* PUT up to and including its first statement, the SELECT that checks that the
\* address exists and belongs to the caller.  id 0: the body has no id.
\* complete: history, the body had the four required fields.
AddressPutBegin(p, headers, bodies) ==
  /\ Free(p)
  /\ \E user \in Callers(headers), id \in 0..nextAddrId, b \in bodies :
       LET r == [op |-> "AddressPUT", cred |-> user, body |-> b, id |-> id,
                 wrote |-> FALSE, complete |-> ~MissingRequired(b)]
       IN  IF user = NULL
             THEN Reply(p, Settled(r), 401, Err("Unauthorized"))
           ELSE IF id = 0
             THEN Reply(p, Settled(r), 400, Err("Address ID is required"))
           ELSE IF MissingRequired(b)
             THEN Reply(p, Settled(r), 400, Err("Address line 1, city, first name, and last name are required"))
           ELSE IF {a \in addresses : AddressMatches(a, id, user)} = {}
             THEN Reply(p, Settled(r), 404, Err("Address not found"))
           ELSE Goto(p, r, IF b.is_default THEN "updClear" ELSE "updApply")
  /\ Arrive(p)
  /\ UNCHANGED <<ordersDb, addressDb>>

\* PUT: UPDATE addresses SET is_default = 0 WHERE user_id = ? AND id != ?
\* wrote: history, the statement changed a row.
AddressPutClear(p) ==
  /\ pc[p] = "updClear"
  /\ addresses' = ClearDefaults(addresses, req[p].cred, req[p].id)
  /\ Goto(p, [req[p] EXCEPT !.wrote = (addresses' # addresses)], "updApply")
  /\ UNCHANGED <<ordersDb, nextAddrId, alone>>

\* PUT: UPDATE addresses SET ... WHERE id = ? AND user_id = ?
AddressPutApply(p) ==
  /\ pc[p] = "updApply"
  /\ LET r == req[p]
         hit == {a \in addresses : AddressMatches(a, r.id, r.cred)}
     IN  IF hit = {}
           THEN /\ Reply(p, Settled(r), 404, Err("Address not found or unauthorized"))
                /\ UNCHANGED addresses
           ELSE /\ addresses' = (addresses \ hit)
                                  \cup {AddressRow(a.id, a.user_id, r.body) : a \in hit}
                /\ Goto(p, [r EXCEPT !.wrote = @ \/ (addresses' # addresses)],
                        "updRefetch")
  /\ UNCHANGED <<ordersDb, nextAddrId, alone>>

\* PUT: SELECT the updated row, respond 200
AddressPutRefetch(p) ==
  /\ pc[p] = "updRefetch"
  /\ Reply(p, Settled(req[p]), 200,
           FirstRow({a \in addresses : AddressMatches(a, req[p].id, req[p].cred)}))
  /\ UNCHANGED <<ordersDb, addressDb, alone>>

\* DELETE ?id=: one statement.  id 0: the request has no id parameter.
AddressDelete(p, headers) ==
  /\ Free(p)
  /\ \E user \in Callers(headers), id \in 0..nextAddrId :
       LET r == [op |-> "AddressDELETE", cred |-> user, id |-> id]
           hit == {a \in addresses : AddressMatches(a, id, user)}
       IN  IF user = NULL
             THEN Reply(p, r, 401, Err("Unauthorized")) /\ UNCHANGED addresses
           ELSE IF id = 0
             THEN Reply(p, r, 400, Err("Address ID is required")) /\ UNCHANGED addresses
           ELSE IF hit = {}
             THEN /\ Reply(p, r, 404, Err("Address not found or unauthorized"))
                  /\ UNCHANGED addresses
           ELSE /\ addresses' = addresses \ hit
                /\ Reply(p, r, 200, [message |-> "Address deleted successfully"])
  /\ Arrive(p)
  /\ UNCHANGED <<ordersDb, nextAddrId>>

\* ------------------------------------------------------------------ specifications
Init ==
  /\ products = InitProducts
  /\ orders = <<>>
  /\ order_items = <<>>
  /\ clock = 0
  /\ pc = [p \in Procs |-> "idle"]
  /\ req = [p \in Procs |-> Idle]
  /\ resp = [p \in Procs |-> NoResp]
  /\ origin = <<>>
  /\ decremented = [x \in StockedVariants |-> 0]
  /\ addresses = {}
  /\ nextAddrId = 1
  /\ alone = [p \in Procs |-> TRUE]

Variants == {"A", "B"}

\* the statements of an order creation in flight
OrderPostStep(p) ==
  \/ ValidateStock(p)
  \/ AdjustStock(p)
  \/ InsertOrderItem(p)
  \/ RefetchOrder(p)

\* One request at a time: order creation, every input.
NextOrders ==
  \E v \in Variants :
    \/ OrderPostBegin("p1", v, AuthHeaders, ItemLists)
    \/ OrderPostStep("p1")
    \/ InsertOrder("p1", {Undefined}, BodyUserIds)

SpecOrders == Init /\ [][NextOrders]_vars

\* One request at a time: orders of either variant and of any owner, and
\* their status updates.
OneItem == {<<Item(1, "red", "M", 1)>>}

NextStatus ==
  \E v \in Variants :
    \/ OrderPostBegin("p1", v, AuthHeaders, OneItem)
    \/ OrderPostStep("p1")
    \/ InsertOrder("p1", {Undefined}, BodyUserIds)
    \/ OrderPut("p1", v, AuthHeaders)

SpecStatus == Init /\ [][NextStatus]_vars

\* One request at a time: orders with a shipping address, and their listings.
NextList ==
  \E v \in Variants :
    \/ OrderPostBegin("p1", v, AuthHeaders, OneItem)
    \/ OrderPostStep("p1")
    \/ InsertOrder("p1", ShippingInputs, BodyUserIds)
    \/ OrderGet("p1", v, AuthHeaders)

SpecList == Init /\ [][NextList]_vars

\* the statements of an address creation in flight
AddressPostStep(p) ==
  \/ AddressPostClear(p)
  \/ AddressPostInsert(p)
  \/ AddressPostRefetch(p)

\* the statements of an address update in flight
AddressPutStep(p) ==
  \/ AddressPutClear(p)
  \/ AddressPutApply(p)
  \/ AddressPutRefetch(p)

\* One request at a time: two users create, list and delete addresses.
NewBodies ==
  {AddressBody("Manila", "", d) : d \in BOOLEAN } \cup {AddressBody("", "", TRUE)}

NextAddress ==
  \/ AddressGet("p1", AuthHeaders)
  \/ AddressPostBegin("p1", AuthHeaders, NewBodies)
  \/ AddressPostStep("p1")
  \/ AddressDelete("p1", AuthHeaders)

SpecAddress == Init /\ [][NextAddress]_vars

\* Concurrent creations and updates of one user's addresses.
OneUser == {[present |-> TRUE, scheme |-> "Bearer ", token |-> "tok_u1"]}
DefaultOrNot == {AddressBody("Manila", "", d) : d \in BOOLEAN }

NextShared ==
  \E p \in Procs :
    \/ AddressPostBegin(p, OneUser, DefaultOrNot)
    \/ AddressPutBegin(p, OneUser, DefaultOrNot)
    \/ AddressPostStep(p)
    \/ AddressPutStep(p)

SpecShared == Init /\ [][NextShared]_vars

\* One request at a time: two users create and update addresses.
NextUpdate ==
  \/ AddressPostBegin("p1", AuthHeaders, DefaultOrNot)
  \/ AddressPostStep("p1")
  \/ AddressPutBegin("p1", AuthHeaders, NewBodies)
  \/ AddressPutStep("p1")

SpecUpdate == Init /\ [][NextUpdate]_vars

\* Concurrent creations, updates and deletes of one user's addresses.
NextLost ==
  \E p \in Procs :
    \/ AddressPostBegin(p, OneUser, DefaultOrNot)
    \/ AddressPostStep(p)
    \/ AddressPutBegin(p, OneUser, DefaultOrNot)
    \/ AddressPutStep(p)
    \/ AddressDelete(p, OneUser)

SpecLost == Init /\ [][NextLost]_vars

\* Concurrent order creations on the stocked variant.
RaceHeaders == {[present |-> TRUE, scheme |-> "Bearer ", token |-> "tok_u1"]}
RaceLists == SeqsUpTo({it \in Items : VariantOf(it) \in StockedVariants}, MaxItems)

NextRace ==
  \E p \in Procs, v \in {"A"} :
    \/ OrderPostBegin(p, v, RaceHeaders, RaceLists)
    \/ OrderPostStep(p)
    \/ InsertOrder(p, {Undefined}, {NULL})

SpecRace == Init /\ [][NextRace]_vars

\* Concurrent order creations on the stocked variant, one through each variant
\* of the handler.
VariantOfSlot(p) == IF p = "p1" THEN "A" ELSE "B"

NextStock ==
  \E p \in Procs :
    \/ OrderPostBegin(p, VariantOfSlot(p), RaceHeaders, RaceLists)
    \/ OrderPostStep(p)
    \/ InsertOrder(p, {Undefined}, {NULL})

SpecStock == Init /\ [][NextStock]_vars

\* ------------------------------------------------------------------ claims
Done(p) == pc[p] = "done"
Moved(p) == <<pc[p], req[p], resp[p]>> # <<pc'[p], req'[p], resp'[p]>>
StockNow(x) == AvailableStock(ParseVariants(products[x[1]].variants), x[2], x[3])
StockAtFirst(x) == AvailableStock(ParseVariants(InitProducts[x[1]].variants), x[2], x[3])

\* C1 (as claimed): a request whose Authorization header yields no identity is
\* answered 401 at once, and has created no order row, made no stock call and
\* written no address row.
C1_NoCredentialNoEffect ==
  \A p \in Procs :
    (req[p].op # "none" /\ req[p].cred = NULL) =>
      /\ Done(p)
      /\ resp[p].status = 401
      /\ req[p].op = "OrderPOST" => (req[p].orderId = 0 /\ req[p].calls = 0)
      /\ req[p].op = "AddressPOST" => req[p].id = 0
      /\ req[p].op = "AddressPUT" => ~req[p].wrote

\* C2 (as claimed): an order creation with an item that asks for more than the
\* recorded stock is answered 400, creates no order row and makes no stock call.
C2_ShortItem400 ==
  \A p \in Procs :
    (req[p].op = "OrderPOST" /\ req[p].short) =>
      /\ req[p].orderId = 0
      /\ req[p].calls = 0
      /\ Done(p) => resp[p].status = 400

\* C2 (amended): such a request creates no order row and makes no stock call; it
\* is answered 400, except that variant A answers 401 when the request carries
\* no valid bearer credential.
C2_ShortItemRejected ==
  \A p \in Procs :
    (req[p].op = "OrderPOST" /\ req[p].short) =>
      /\ req[p].orderId = 0
      /\ req[p].calls = 0
      /\ req[p].took = 0
      /\ Done(p) =>
           resp[p].status =
             IF req[p].variant = "A" /\ req[p].cred = NULL THEN 401 ELSE 400

\* C2 witness: a two-item request whose second item is short was rejected by the
\* stock check, after its first item had passed.
C2_SecondItemShort ==
  \E p \in Procs :
    /\ Done(p) /\ req[p].op = "OrderPOST" /\ req[p].short /\ req[p].n = 2
    /\ resp[p].status = 400 /\ resp[p].body = Err("Insufficient stock")
    /\ orders = <<>> /\ order_items = <<>>

\* C3 (as claimed): an authenticated creation with items, total and email, each
\* item covered on its own by the stock, run alone, is answered 201 with as many
\* items as were sent.
C3_CoveredItems201 ==
  \A p \in Procs :
    (/\ Done(p) /\ req[p].op = "OrderPOST" /\ alone[p]
     /\ req[p].cred # NULL /\ req[p].n > 0 /\ req[p].complete /\ ~req[p].short) =>
      /\ resp[p].status = 201
      /\ Len(resp[p].body.items) = req[p].n

\* C4 (as claimed): no user ever has two default addresses.
C4_OneDefaultPerUser ==
  \A u \in Users : Cardinality(DefaultsOf(addresses, u)) <= 1

\* C5: when a creation with is_default, run alone, has answered 201, the caller's
\* default addresses are exactly the new row.
C5_NewDefaultIsOnlyDefault ==
  \A p \in Procs :
    (/\ Done(p) /\ req[p].op = "AddressPOST" /\ alone[p]
     /\ resp[p].status = 201 /\ req[p].body.is_default) =>
      {a.id : a \in DefaultsOf(addresses, req[p].cred)} = {req[p].id}

\* C5 witness: such a creation by a caller who had several default addresses.
C5_AfterSeveralDefaults ==
  \E p \in Procs :
    /\ Done(p) /\ req[p].op = "AddressPOST" /\ alone[p]
    /\ resp[p].status = 201 /\ req[p].body.is_default
    /\ req[p].before >= 2
    /\ resp[p].body.id = req[p].id /\ resp[p].body.is_default

\* C6: a status update with id and status by an authenticated caller who owns no
\* order of that id is answered 404 and changes no order row.
C6_ForeignUpdate404 ==
  [][\A p \in Procs :
       (/\ req'[p].op = "OrderPUT" /\ Moved(p)
        /\ req'[p].cred # NULL /\ req'[p].id # 0 /\ req'[p].status # ""
        /\ ~\E k \in 1..Len(orders) :
              orders[k].id = req'[p].id /\ orders[k].user_id = req'[p].cred)
       => (resp'[p].status = 404 /\ orders' = orders)]_vars

\* C6 witness: a 404 for an order that exists and belongs to another user.
C6_OthersOrder404 ==
  \E p \in Procs :
    /\ Done(p) /\ req[p].op = "OrderPUT" /\ resp[p].status = 404
    /\ req[p].cred # NULL /\ req[p].id \in 1..Len(orders)
    /\ orders[req[p].id].user_id \in Users \ {req[p].cred}
    /\ orders[req[p].id].status = "pending"

\* C7: a delete by an authenticated caller removes exactly the row of that id
\* owned by the caller (200); when there is none it is answered 404 and the
\* table is unchanged.
C7_DeleteOwnRowOnly ==
  [][\A p \in Procs :
       (/\ req'[p].op = "AddressDELETE" /\ Moved(p)
        /\ req'[p].cred # NULL /\ req'[p].id # 0)
       => LET own == {a \in addresses :
                        a.id = req'[p].id /\ a.user_id = req'[p].cred}
          IN  IF own = {}
                THEN resp'[p].status = 404 /\ addresses' = addresses
                ELSE /\ resp'[p].status = 200
                     /\ Cardinality(own) = 1
                     /\ addresses' = addresses \ own]_vars

\* C7 witness: a 404 for an address that exists and belongs to another user.
C7_OthersAddress404 ==
  \E p \in Procs :
    /\ Done(p) /\ req[p].op = "AddressDELETE" /\ resp[p].status = 404
    /\ req[p].cred # NULL
    /\ \E a \in addresses : a.id = req[p].id /\ a.user_id # req[p].cred

\* C8 (as claimed): the shipping_address object passed to a creation comes back
\* as that object in the 201 response and in every later listing.
SameObject(x, o) == x.type = "object" /\ x.val = o.val
C8_ShippingRoundTrip ==
  \A p \in Procs :
    /\ (Done(p) /\ req[p].op = "OrderPOST" /\ resp[p].status = 201
        /\ origin[req[p].orderId].shipping.type = "object") =>
         SameObject(resp[p].body.shipping_address, origin[req[p].orderId].shipping)
    /\ (Done(p) /\ req[p].op = "OrderGET" /\ resp[p].status = 200) =>
         \A k \in 1..Len(resp[p].body) :
           origin[resp[p].body[k].id].shipping.type = "object" =>
             SameObject(resp[p].body[k].shipping_address,
                        origin[resp[p].body[k].id].shipping)

\* C9: when the stock call for item k comes back non-OK the request is answered
\* 400 then and there, with k calls made and no order row; and every unit a call
\* has subtracted stays subtracted.
C9_FailedCallAborts ==
  /\ \A p \in Procs :
       (req[p].op = "OrderPOST" /\ req[p].failedAt # 0) =>
         /\ Done(p)
         /\ resp[p].status = 400
         /\ req[p].orderId = 0
         /\ req[p].calls = req[p].failedAt
  /\ \A x \in StockedVariants : StockNow(x) + decremented[x] = StockAtFirst(x)

\* C9 witness: the call for a second item failed after the first had subtracted
\* its units, which are gone from the stock and are in no order.
C9_UnitsGoneWithoutOrder ==
  \E p \in Procs, x \in StockedVariants :
    /\ Done(p) /\ req[p].op = "OrderPOST" /\ req[p].failedAt = 2
    /\ req[p].took > 0 /\ req[p].orderId = 0 /\ resp[p].status = 400
    /\ StockNow(x) = StockAtFirst(x) - req[p].took
    /\ order_items = <<>>

\* C10: as long as no stock call has subtracted anything, every request that has
\* passed the stock check holds only items the current stock covers one by one.
C10_PassedOnUntouchedStock ==
  (\A x \in StockedVariants : decremented[x] = 0) =>
    \A p \in Procs :
      pc[p] = "adjust" =>
        \A k \in 1..Len(req[p].items) :
          req[p].items[k].quantity <= StockAt(products, req[p].items[k])

\* C10 witness: two requests for the same variant have both passed the stock
\* check, neither has called the stock service, and the stock covers each
\* request but not the two together.
C10_BothPassedBeforeEitherAdjusts ==
  \E x \in StockedVariants :
    /\ \A p \in Procs :
         /\ pc[p] = "adjust" /\ req[p].calls = 0 /\ req[p].n = 1
         /\ VariantOf(req[p].items[1]) = x
         /\ req[p].items[1].quantity <= StockNow(x)
    /\ req["p1"].items[1].quantity + req["p2"].items[1].quantity > StockNow(x)

PutInFlight == {"updClear", "updApply", "updRefetch"}
RowsOfOthers(rows, user) == {a \in rows : a.user_id # user}

\* C11: an address update with id and the required fields, by an authenticated
\* caller: when no address of that id belongs to the caller it is answered 404
\* and the table is unchanged; no step of an update changes a row of another
\* user; and an update with is_default that found its row and runs alone ends
\* with 200, the updated address being then the caller's only default address.
C11_UpdateOwnAddress ==
  [][\A p \in Procs :
       (/\ req'[p].op = "AddressPUT" /\ Moved(p)
        /\ req'[p].cred # NULL /\ req'[p].id # 0 /\ req'[p].complete)
       => /\ RowsOfOthers(addresses', req'[p].cred)
               = RowsOfOthers(addresses, req'[p].cred)
          /\ (Free(p) /\ ~\E a \in addresses :
                            a.id = req'[p].id /\ a.user_id = req'[p].cred)
               => (pc'[p] = "done" /\ resp'[p].status = 404
                   /\ addresses' = addresses)
          /\ (pc[p] \in PutInFlight /\ pc'[p] = "done"
              /\ alone'[p] /\ req'[p].body.is_default)
               => (/\ resp'[p].status = 200
                   /\ {a.id : a \in DefaultsOf(addresses', req'[p].cred)}
                        = {req'[p].id}
                   /\ resp'[p].body.id = req'[p].id
                   /\ resp'[p].body.is_default)]_vars

\* C11 witness: an update made a non-default address the caller's default; the
\* caller's former default was cleared and another user's default is still one.
C11_DefaultMoved ==
  \E p \in Procs :
    /\ Done(p) /\ req[p].op = "AddressPUT" /\ resp[p].status = 200 /\ alone[p]
    /\ req[p].body.is_default /\ req[p].wrote
    /\ DefaultsOf(addresses, req[p].cred) # {}
    /\ \A a \in DefaultsOf(addresses, req[p].cred) : a.id = req[p].id
    /\ \E a \in addresses : a.user_id = req[p].cred /\ a.id < req[p].id
    /\ \E a \in addresses : a.user_id # req[p].cred /\ a.is_default

RECURSIVE SumQuantity(_)
SumQuantity(rows) ==
  IF rows = <<>> THEN 0 ELSE Head(rows).quantity + SumQuantity(Tail(rows))

\* units of a variant in the stored order-item rows
Sold(x) ==
  SumQuantity(SelectSeq(order_items,
                        LAMBDA r : <<r.product_id, r.color, r.size>> = x))

ExistingVariants ==
  {VariantOf(it) : it \in {i \in Items : i.product_id \in ProductIds}}

\* C12: with a stock service that rejects, stock unchanged, a decrement larger
\* than the current stock and otherwise subtracts it, no variant's stock is
\* ever negative and the units in the stored order items plus the current
\* stock never exceed the variant's initial stock.
C12_NeverOversold ==
  \A x \in ExistingVariants :
    /\ StockNow(x) >= 0
    /\ Sold(x) + StockNow(x) <= StockAtFirst(x)

\* C12 witness: two requests both passed the stock validation; one was refused
\* by the stock service at its first call, the other has its order, and the
\* order items hold exactly the initial stock.
C12_SoldOutInARace ==
  \E p \in Procs, q \in Procs, x \in StockedVariants :
    /\ p # q
    /\ Done(p) /\ req[p].op = "OrderPOST" /\ resp[p].status = 201
    /\ Done(q) /\ req[q].op = "OrderPOST" /\ req[q].failedAt = 1
    /\ ~req[q].short /\ ~alone[p] /\ ~alone[q]
    /\ StockNow(x) = 0 /\ Sold(x) = StockAtFirst(x)

\* C13 (as claimed): an address update that is answered 404 has modified no
\* address row, whatever other address requests ran beside it.
C13_NotFoundWroteNothing ==
  \A p \in Procs :
    (Done(p) /\ req[p].op = "AddressPUT" /\ resp[p].status = 404) =>
      ~req[p].wrote

\* C14 (as claimed): every order row has the user_id that the bearer credential
\* of the request that created it verifies to; none has a null user_id or one
\* taken from the request body.
C14_OrderOwnedByVerifiedCaller ==
  \A k \in 1..Len(orders) :
    /\ origin[k].cred # NULL
    /\ orders[k].user_id = origin[k].cred

====
